---- MODULE Spec2Model ----
(***************************************************************************)
(* Model of the Nadi Django adapter:                                       *)
(*   nadi_django/__init__.py    NadiRenderer (manifest, asset tags, SSR)   *)
(*   nadi_django/middleware.py  NadiMiddleware (version / CSRF headers)    *)
(*                                                                         *)
(* Text produced by the code (script and style tags) is modelled as a      *)
(* sequence of string chunks: concatenation of strings is concatenation of *)
(* chunk sequences, and the newline written by '\n'.join is the chunk NL.  *)
(* A Python exception leaving a function is a result with raised = TRUE.   *)
(***************************************************************************)
EXTENDS Integers, Sequences, FiniteSets, TLC

VARIABLES
    file,          \* the manifest file on disk (environment)
    settings,      \* django.conf.settings: NADI_SSR_URL, NADI_SSR_ENABLED ("absent" = not set)
    constructed,   \* the module-level `nadi = NadiRenderer()` has run
    ssr_url,       \* NadiRenderer.ssr_url
    ssr_enabled,   \* NadiRenderer.ssr_enabled
    manifest,      \* NadiRenderer.manifest
    loaded,        \* history: the file and the manifest as they were at construction
    last,          \* the last call of render: its arguments and what it produced
    mw             \* the last call of NadiMiddleware.__call__

vars == <<file, settings, constructed, ssr_url, ssr_enabled, manifest, loaded, last, mw>>

(***************************************************************************)
(* Bounds of the model.                                                    *)
(***************************************************************************)
MaxEntries == 2    \* manifest entries drawn for the asset-tag specification
MaxCss == 2        \* length of an entry's css list

(***************************************************************************)
(* Python values and truthiness, as far as the code tests them.            *)
(***************************************************************************)
PyFlags == {"True", "False", "None"}

Truthy(v) == v = "True"

(***************************************************************************)
(* The manifest: what json.load returns for the file.                      *)
(* An object is an ordered sequence of entries (dicts keep insertion       *)
(* order); a list and null are the parsed values that are not objects.     *)
(* An entry's datum is a dict (isdict) with optional keys file, isEntry    *)
(* and css, or the JSON string "x" (not a dict).                           *)
(***************************************************************************)
Keys == <<"main.ts", "app.ts", "admin.ts">>
FileNames == {"main.abc123.js", "app.js"}
CssNames == <<"main.xyz.css", "app.css", "theme.css">>

Entry(k, f, e, c) ==
    [key |-> k, isdict |-> TRUE, hasFile |-> TRUE, file |-> f,
     isEntry |-> e, hasCss |-> c >= 0,
     css |-> IF c >= 0 THEN SubSeq(CssNames, 1, c) ELSE <<>>]

NoFileEntry(k) ==
    [key |-> k, isdict |-> TRUE, hasFile |-> FALSE, file |-> "",
     isEntry |-> "true", hasCss |-> FALSE, css |-> <<>>]

StringEntry(k) ==
    [key |-> k, isdict |-> FALSE, hasFile |-> FALSE, file |-> "",
     isEntry |-> "absent", hasCss |-> FALSE, css |-> <<>>]

Dict(es) == [shape |-> "dict", entries |-> es]
List(es) == [shape |-> "list", entries |-> es]
Null == [shape |-> "null", entries |-> <<>>]
EmptyDict == Dict(<<>>)

\* bool(manifest): an empty dict, an empty list and None are falsy.
ManifestTruthy(m) == m.shape # "null" /\ m.entries # <<>>

(***************************************************************************)
(* The manifest file.                                                      *)
(***************************************************************************)
Missing == [kind |-> "missing", value |-> EmptyDict]
Invalid == [kind |-> "invalid", value |-> EmptyDict]
Json(v) == [kind |-> "json", value |-> v]

\* _load_manifest: open() raises for a missing file, json.load
\* raises for content that is not JSON; the bare except returns {}. Whatever
\* json.load returns is returned as it is.
LoadManifest(f) == IF f.kind = "json" THEN f.value ELSE EmptyDict

\* _get_version: md5 of the file's bytes, "dev" when open() or read() raises.
GetVersion(f) ==
    IF f.kind = "missing"
    THEN [dev |-> TRUE, md5of |-> Missing]
    ELSE [dev |-> FALSE, md5of |-> f]

(***************************************************************************)
(* Asset tags.                                                             *)
(***************************************************************************)
NL == "\n"
FallbackScript == <<"<script type=\"module\" src=\"/static/src/main.ts\"></script>">>
ScriptTag(f) == <<"<script type=\"module\" src=\"/static/build/", f, "\"></script>">>
StyleTag(c) == <<"<link rel=\"stylesheet\" href=\"/static/build/", c, "\">">>

\* '\n'.join(lines)
RECURSIVE Join(_)
Join(lines) ==
    IF lines = <<>> THEN <<>>
    ELSE IF Len(lines) = 1 THEN lines[1]
    ELSE lines[1] \o <<NL>> \o Join(Tail(lines))

Returned(v) == [raised |-> FALSE, exc |-> "", value |-> v]
Raised(e) == [raised |-> TRUE, exc |-> e, value |-> <<>>]

\* the loop of _get_scripts over manifest.items()
RECURSIVE ScriptsLoop(_, _)
ScriptsLoop(es, scripts) ==
    IF es = <<>> THEN Returned(Join(scripts))
    ELSE LET data == Head(es) IN
         IF ~data.isdict THEN Raised("AttributeError")       \* 'str'.get
         ELSE IF data.isEntry = "true"
              THEN IF ~data.hasFile THEN Raised("KeyError")  \* data["file"]
                   ELSE ScriptsLoop(Tail(es), Append(scripts, ScriptTag(data.file)))
              ELSE ScriptsLoop(Tail(es), scripts)

\* _get_scripts without the isEntry test: a line for every record
RECURSIVE ScriptsLoopAll(_, _)
ScriptsLoopAll(es, scripts) ==
    IF es = <<>> THEN Returned(Join(scripts))
    ELSE LET data == Head(es) IN
         IF ~data.isdict THEN Raised("AttributeError")
         ELSE IF ~data.hasFile THEN Raised("KeyError")
         ELSE ScriptsLoopAll(Tail(es), Append(scripts, ScriptTag(data.file)))

GetScriptsAll(m) ==
    IF ~ManifestTruthy(m) THEN Returned(FallbackScript)
    ELSE IF m.shape # "dict" THEN Raised("AttributeError")
    ELSE ScriptsLoopAll(m.entries, <<>>)

\* _get_scripts
GetScripts(m) ==
    IF ~ManifestTruthy(m) THEN Returned(FallbackScript)
    ELSE IF m.shape # "dict" THEN Raised("AttributeError")   \* list.items
    ELSE ScriptsLoop(m.entries, <<>>)

\* the inner loop of _get_styles over data['css']
RECURSIVE CssLoop(_, _)
CssLoop(cs, styles) ==
    IF cs = <<>> THEN styles
    ELSE CssLoop(Tail(cs), Append(styles, StyleTag(Head(cs))))

\* the loop of _get_styles over manifest.items(); 'css' in "x" is False
RECURSIVE StylesLoop(_, _)
StylesLoop(es, styles) ==
    IF es = <<>> THEN Returned(Join(styles))
    ELSE LET data == Head(es) IN
         IF data.isdict /\ data.hasCss
         THEN StylesLoop(Tail(es), CssLoop(data.css, styles))
         ELSE StylesLoop(Tail(es), styles)

\* _get_styles taking only the first css file of each record
RECURSIVE StylesLoopFirst(_, _)
StylesLoopFirst(es, styles) ==
    IF es = <<>> THEN Returned(Join(styles))
    ELSE LET data == Head(es) IN
         IF data.isdict /\ data.hasCss /\ data.css # <<>>
         THEN StylesLoopFirst(Tail(es), Append(styles, StyleTag(data.css[1])))
         ELSE StylesLoopFirst(Tail(es), styles)

GetStylesFirst(m) ==
    IF m.shape # "dict" THEN Raised("AttributeError")
    ELSE StylesLoopFirst(m.entries, <<>>)

\* _get_styles
GetStyles(m) ==
    IF m.shape # "dict" THEN Raised("AttributeError")        \* list.items, None.items
    ELSE StylesLoop(m.entries, <<>>)

(***************************************************************************)
(* render: its arguments.                                                  *)
(***************************************************************************)
XRequestedWith == {"absent", "XMLHttpRequest", "Fetch"}
Requests == [xrw : XRequestedWith, path : {"/dashboard"}]
Components == {"Dashboard"}
PropsValues == {"None", "{user: ann}"}
Templates == {"absent", "pages/shell.html"}
NoOptions == [isNone |-> FALSE, ssr |-> "absent", template |-> "absent"]
OptionsValues ==
    {[isNone |-> TRUE, ssr |-> "absent", template |-> "absent"]}
    \cup [isNone : {FALSE}, ssr : {"absent"} \cup PyFlags, template : {"absent"}]
    \cup [isNone : {FALSE}, ssr : {"absent"}, template : Templates]

\* props or {}
PropsOrEmpty(props) == IF props = "None" THEN "{}" ELSE props
\* options or {}
OptionsOrEmpty(options) == IF options.isNone THEN NoOptions ELSE options
\* dict.get(key, default)
DictGet(v, default) == IF v = "absent" THEN default ELSE v

(***************************************************************************)
(* The SSR endpoint: what one POST to {ssr_url}/render comes to.           *)
(***************************************************************************)
SsrHtml == "<div>x</div>"
SsrHead == "<title>t</title>"
NoOutcome == [kind |-> "none", isdict |-> FALSE, hasHtml |-> FALSE, hasHead |-> FALSE]
SsrOutcomes ==
    [kind : {"network_error", "timeout", "non_json"},
     isdict : {FALSE}, hasHtml : {FALSE}, hasHead : {FALSE}]
    \cup {[kind |-> "json", isdict |-> FALSE, hasHtml |-> FALSE, hasHead |-> FALSE]}
    \cup [kind : {"json"}, isdict : {TRUE}, hasHtml : BOOLEAN, hasHead : BOOLEAN]

\* line 53 without the option: ssr_enabled alone decides
SsrWantedWhateverOptions(enabled, options) == Truthy(enabled)

\* line 53: self.ssr_enabled and options.get('ssr', True)
SsrWanted(enabled, options) == Truthy(enabled) /\ Truthy(DictGet(options.ssr, "True"))

\* lines 54-65 with a response that lacks a key counting as no response
SsrBlockBothOrNothing(outcome) ==
    IF outcome.kind = "json" /\ outcome.isdict /\ outcome.hasHtml /\ outcome.hasHead
    THEN [html |-> SsrHtml, head |-> SsrHead]
    ELSE [html |-> "", head |-> ""]

\* lines 54-65: html and head of the context after the try block.
\* requests.post raises on a network error or timeout, response.json() on a
\* body that is not JSON, data.get on JSON that is not an object; the bare
\* except leaves the context as it was. A key the object lacks reads as ''.
SsrBlock(outcome) ==
    IF outcome.kind = "json" /\ outcome.isdict
    THEN [html |-> IF outcome.hasHtml THEN SsrHtml ELSE "",
          head |-> IF outcome.hasHead THEN SsrHead ELSE ""]
    ELSE [html |-> "", head |-> ""]

\* the one requests.post of line 56
Post(url, component, props) ==
    [url |-> <<url, "/render">>, component |-> component, props |-> props, timeout |-> 2]

NoVersion == [dev |-> FALSE, md5of |-> Missing]

NoCall ==
    [called |-> FALSE, request |-> [xrw |-> "absent", path |-> "/dashboard"],
     options |-> NoOptions, file |-> Missing, kind |-> "none", exc |-> "",
     component |-> "", props |-> "", url |-> "", version |-> NoVersion,
     propsJson |-> <<>>, scripts |-> <<>>, styles |-> <<>>, html |-> "", head |-> "",
     template |-> "", posts |-> <<>>, outcome |-> NoOutcome]

\* a call of render: its arguments and the manifest file as it is at the call
Call(request, options, f) ==
    [NoCall EXCEPT !.called = TRUE, !.request = request, !.options = options, !.file = f]

\* render gets to line 56 and posts: the request is no XHR request, the
\* asset tags of lines 46-47 did not raise, and line 53 holds
ReachesPost(m, request, options) ==
    /\ request.xrw # "XMLHttpRequest"
    /\ ~GetScripts(m).raised
    /\ ~GetStyles(m).raised
    /\ SsrWanted(ssr_enabled, OptionsOrEmpty(options))

\* What render(request, component, props, options) comes to on a renderer
\* whose manifest is m, with the manifest file f, the SSR endpoint answering
\* the POST (when one is made) with outcome.
RenderOutput(m, f, request, component, props, options, outcome) ==
    LET p == PropsOrEmpty(props)
        o == OptionsOrEmpty(options)
        c == Call(request, options, f)
        scripts == GetScripts(m)
        styles == GetStyles(m)
        wanted == SsrWanted(ssr_enabled, o)
        ssr == IF wanted THEN SsrBlock(outcome) ELSE [html |-> "", head |-> ""]
    IN  IF request.xrw = "XMLHttpRequest"
        THEN [c EXCEPT !.kind = "JsonPayload", !.component = component, !.props = p,
                       !.url = request.path, !.version = GetVersion(f)]
        ELSE IF scripts.raised THEN [c EXCEPT !.kind = "raised", !.exc = scripts.exc]
        ELSE IF styles.raised THEN [c EXCEPT !.kind = "raised", !.exc = styles.exc]
        ELSE [c EXCEPT !.kind = "HtmlContext", !.component = component,
                       !.propsJson = <<"json.dumps", p>>,
                       !.scripts = scripts.value, !.styles = styles.value,
                       !.html = ssr.html, !.head = ssr.head,
                       !.posts = IF wanted THEN <<Post(ssr_url, component, p)>> ELSE <<>>,
                       !.outcome = IF wanted THEN outcome ELSE NoOutcome,
                       !.template = DictGet(o.template, "nadi/app.html")]

\* the answers the SSR endpoint can give to the POSTs of one call
Answers(m, request, options) ==
    IF ReachesPost(m, request, options) THEN SsrOutcomes ELSE {NoOutcome}

(***************************************************************************)
(* Actions of the renderer.                                                *)
(***************************************************************************)
NoMw ==
    [called |-> FALSE, xnadi |-> "absent", token |-> "",
     inner |-> [version |-> "absent", csrf |-> "absent"],
     out |-> [version |-> "absent", csrf |-> "absent"]]

\* NadiRenderer.__init__, run once by `nadi = NadiRenderer()`
Construct ==
    /\ ~constructed
    /\ constructed' = TRUE
    /\ ssr_url' = DictGet(settings.NADI_SSR_URL, "http://localhost:13714")
    /\ ssr_enabled' = DictGet(settings.NADI_SSR_ENABLED, "False")
    /\ manifest' = LoadManifest(file)
    /\ loaded' = [file |-> file, manifest |-> LoadManifest(file)]
    /\ UNCHANGED <<file, settings, last, mw>>

\* render loading the manifest again at each call
renderReloading(request, component, props, options) ==
    /\ constructed
    /\ manifest' = LoadManifest(file)
    /\ \E outcome \in Answers(LoadManifest(file), request, options) :
          last' = RenderOutput(LoadManifest(file), file, request, component, props, options, outcome)
    /\ UNCHANGED <<file, settings, constructed, ssr_url, ssr_enabled, loaded, mw>>

\* NadiRenderer.render
render(request, component, props, options) ==
    /\ constructed
    /\ \E outcome \in Answers(manifest, request, options) :
          last' = RenderOutput(manifest, file, request, component, props, options, outcome)
    /\ UNCHANGED <<file, settings, constructed, ssr_url, ssr_enabled, manifest, loaded, mw>>

Render ==
    \E request \in Requests, component \in Components, props \in PropsValues,
       options \in OptionsValues :
        render(request, component, props, options)

\* the environment replaces, removes or corrupts the manifest file while the
\* renderer lives (before construction the file is any of Init's)
ChangeManifestFile ==
    /\ constructed
    /\ \E f \in {Missing, Json(Dict(<<Entry(Keys[1], "app.js", "true", 1)>>))} :
          f # file /\ file' = f
    /\ UNCHANGED <<settings, constructed, ssr_url, ssr_enabled, manifest, loaded, last, mw>>

(***************************************************************************)
(* NadiMiddleware.                                                         *)
(***************************************************************************)
XNadiValues == {"absent", "", "0", "1", "true"}
InnerVersions == {"absent", "0.1.0", "0.2.0"}
InnerCsrf == {"absent", "stale", "tok-a"}
Tokens == {"tok-a", "tok-b", "tok-c"}

\* request.headers.get('X-Nadi') as a condition: None and '' are falsy
HeaderTruthy(h) == h \notin {"absent", ""}

\* line 16 comparing the marker with None instead of testing its truth
HeaderPresent(h) == h # "absent"

\* line 16: if request.headers.get('X-Nadi')
CsrfWanted(h) == HeaderTruthy(h)

\* line 13: response['X-Nadi-Version'] = '0.2.0'
SetVersion(response) == [response EXCEPT !.version = "0.2.0"]

\* NadiMiddleware.__call__: inner is the response of get_response(request),
\* token what get_token(request) returns
call(xnadi, inner, token) ==
    /\ mw' = [called |-> TRUE, xnadi |-> xnadi, token |-> token, inner |-> inner,
              out |-> IF CsrfWanted(xnadi)
                      THEN [SetVersion(inner) EXCEPT !.csrf = token]
                      ELSE SetVersion(inner)]
    /\ UNCHANGED <<file, settings, constructed, ssr_url, ssr_enabled, manifest, loaded, last>>

MiddlewareCall ==
    \E xnadi \in XNadiValues, inner \in [version : InnerVersions, csrf : InnerCsrf],
       token \in Tokens :
        call(xnadi, inner, token)

(***************************************************************************)
(* Specifications.                                                         *)
(***************************************************************************)
SettingsValues ==
    [NADI_SSR_URL : {"absent"}, NADI_SSR_ENABLED : {"absent", "True", "False"}]
    \cup {[NADI_SSR_URL |-> "http://ssr:3000", NADI_SSR_ENABLED |-> "True"]}

\* manifest files of every kind: missing, not JSON, JSON of the
\* expected structure, and JSON of another structure
ManifestFiles ==
    {Missing, Invalid,
     Json(EmptyDict),
     Json(Dict(<<Entry(Keys[1], "main.abc123.js", "true", 1),
                 Entry(Keys[2], "app.js", "false", 0)>>)),
     Json(List(<<>>)),
     Json(List(<<StringEntry("")>>)),
     Json(Null),
     Json(Dict(<<NoFileEntry(Keys[1])>>)),
     Json(Dict(<<StringEntry(Keys[1])>>))}

InitRenderer ==
    /\ constructed = FALSE
    /\ ssr_url = ""
    /\ ssr_enabled = "False"
    /\ manifest = EmptyDict
    /\ loaded = [file |-> Missing, manifest |-> EmptyDict]
    /\ last = NoCall
    /\ mw = NoMw

Init ==
    /\ file \in ManifestFiles
    /\ settings \in SettingsValues
    /\ InitRenderer

\* the template tag nadi_render(component): render of a bare HttpRequest()
\* with props or {} and no options
nadi_render ==
    \E component \in Components :
        render([xrw |-> "absent", path |-> ""], component, "{}",
               [isNone |-> TRUE, ssr |-> "absent", template |-> "absent"])

Next == Construct \/ Render \/ nadi_render \/ ChangeManifestFile

Spec == Init /\ [][Next]_vars

\* Asset tags: every manifest of the data model's type within the bounds,
\* rendered as a full page by the template tag.
IsEntryValues == {"absent", "true", "false"}
EntryChoices == [file : FileNames, isEntry : IsEntryValues, css : -1..MaxCss]
EntriesOf(ch) == [i \in 1..Len(ch) |-> Entry(Keys[i], ch[i].file, ch[i].isEntry, ch[i].css)]
TypedManifests ==
    {Dict(EntriesOf(ch)) : ch \in UNION {[1..n -> EntryChoices] : n \in 0..MaxEntries}}

InitAssets ==
    /\ file \in {Json(m) : m \in TypedManifests}
    /\ settings = [NADI_SSR_URL |-> "absent", NADI_SSR_ENABLED |-> "absent"]
    /\ InitRenderer

NextAssets == Construct \/ nadi_render

SpecAssets == InitAssets /\ [][NextAssets]_vars

\* The middleware alone.
InitMiddleware ==
    /\ file = Missing
    /\ settings = [NADI_SSR_URL |-> "absent", NADI_SSR_ENABLED |-> "absent"]
    /\ InitRenderer

NextMiddleware == MiddlewareCall

SpecMiddleware == InitMiddleware /\ [][NextMiddleware]_vars

(***************************************************************************)
(* Properties.                                                             *)
(***************************************************************************)
IsXhr(c) == c.request.xrw = "XMLHttpRequest"

\* The manifest is of the data model's type: a mapping from string to
\* metadata records {file, isEntry?, css?}.
WellTyped(m) ==
    /\ m.shape = "dict"
    /\ \A i \in 1..Len(m.entries) : m.entries[i].isdict /\ m.entries[i].hasFile

\* C1: render posts to the SSR endpoint only for a full-page request with
\* ssr_enabled true and options.ssr not False: a call flagged
\* X-Requested-With: XMLHttpRequest makes no SSR call whatever ssr_enabled and
\* the options are, and a call with options.ssr = False makes none even with
\* ssr_enabled true.
C1_SsrOnlyWhenWanted ==
    last.called =>
        /\ last.posts # <<>> =>
              ~IsXhr(last) /\ ssr_enabled = "True" /\ last.options.ssr # "False"
        /\ IsXhr(last) => last.posts = <<>>
        /\ last.options.ssr = "False" => last.posts = <<>>

C1_Witness ==
    /\ last.called
    /\ ssr_enabled = "True"
    /\ last.options.ssr = "False"
    /\ last.kind = "HtmlContext"
    /\ last.posts = <<>>

\* C2 (as claimed): every full-page call with SSR enabled and options.ssr
\* absent or anything but False makes exactly one POST to {ssr_url}/render.
C2_OnePostWheneverNotFalse ==
    (last.called /\ ~IsXhr(last) /\ ssr_enabled = "True" /\ last.options.ssr # "False")
        => /\ Len(last.posts) = 1
           /\ last.posts[1].url = <<ssr_url, "/render">>

\* the SSR call failed in the sense of the claim
SsrFailed(o) ==
    \/ o.kind \in {"network_error", "timeout", "non_json"}
    \/ o.kind = "json" /\ (~o.isdict \/ ~o.hasHtml \/ ~o.hasHead)

\* C3 (as claimed): when the SSR call fails (network error, timeout, body
\* that is not JSON, response missing html or head) the context has
\* html = "" and head = "", both, and nothing is raised.
C3_FailureLeavesBothEmpty ==
    (last.called /\ last.posts # <<>> /\ SsrFailed(last.outcome))
        => last.kind = "HtmlContext" /\ last.html = "" /\ last.head = ""

\* C3 (amended): when the SSR call fails nothing is raised; on a network
\* error, a timeout, a body that is not JSON or not a JSON object, or an
\* object with neither key, html = "" and head = ""; an object with only
\* one of the keys gives that key's value and "" for the other.
C3_FailureDegradesPerKey ==
    (last.called /\ last.posts # <<>> /\ SsrFailed(last.outcome))
        => /\ last.kind = "HtmlContext"
           /\ LET o == last.outcome
                  object == o.kind = "json" /\ o.isdict
              IN  /\ last.html = (IF object /\ o.hasHtml THEN SsrHtml ELSE "")
                  /\ last.head = (IF object /\ o.hasHead THEN SsrHead ELSE "")

C3_Witness ==
    /\ last.called
    /\ last.kind = "HtmlContext"
    /\ Len(last.posts) = 1
    /\ last.outcome = [kind |-> "json", isdict |-> TRUE, hasHtml |-> FALSE, hasHead |-> TRUE]
    /\ last.html = ""
    /\ last.head = SsrHead

\* C4 (as claimed): for a manifest file that is missing, not JSON, or JSON
\* that is no mapping from string to metadata record, _load_manifest returns
\* the empty mapping and _get_scripts returns the fallback reference.
C4_MalformedLoadsEmpty ==
    (constructed /\ ~(loaded.file.kind = "json" /\ WellTyped(loaded.file.value)))
        => /\ manifest = EmptyDict
           /\ GetScripts(manifest) = Returned(FallbackScript)

\* C5 (as claimed): every call of render produces a JsonPayload or an
\* HtmlContext, and which one follows from the X-Requested-With header alone.
C5_VariantByHeaderAlone ==
    last.called =>
        /\ last.kind \in {"JsonPayload", "HtmlContext"}
        /\ last.kind = "JsonPayload" <=> IsXhr(last)

\* C6 (as claimed): whatever the manifest file, the SSR outcome and the
\* request, no call of render raises.
C6_NothingRaised == last.called => last.kind # "raised"

\* the positions, in iteration order, of the manifest's records with isEntry true
IsEntryAt(m, i) == m.entries[i].isEntry = "true"
EntryCount(m) == Cardinality({i \in 1..Len(m.entries) : IsEntryAt(m, i)})
\* the k-th of them
NthEntry(m, k) ==
    CHOOSE i \in 1..Len(m.entries) :
        IsEntryAt(m, i) /\ Cardinality({j \in 1..i : IsEntryAt(m, j)}) = k

\* text is n lines, each three chunks, and a newline between two lines
LinesOf(text, n) == Len(text) = (IF n = 0 THEN 0 ELSE 4 * n - 1)
LineAt(text, k) == SubSeq(text, 4 * k - 3, 4 * k - 1)
SeparatedAt(text, k, n) == k < n => text[4 * k] = NL

\* C7: for a manifest with at least one record marked isEntry = true,
\* _get_scripts returns one script line per such record, with
\* src = /static/build/<file>, in iteration order, joined by newlines, no
\* line for the other records and no fallback line; the fallback line is
\* returned only for the empty manifest.
C7_OneScriptPerEntry ==
    (last.kind = "HtmlContext" /\ WellTyped(manifest)) =>
        /\ EntryCount(manifest) >= 1 =>
              /\ LinesOf(last.scripts, EntryCount(manifest))
              /\ \A k \in 1..EntryCount(manifest) :
                    /\ LineAt(last.scripts, k) =
                          <<"<script type=\"module\" src=\"/static/build/",
                            manifest.entries[NthEntry(manifest, k)].file,
                            "\"></script>">>
                    /\ SeparatedAt(last.scripts, k, EntryCount(manifest))
              /\ last.scripts # FallbackScript
        /\ last.scripts = FallbackScript => manifest.entries = <<>>

C7_Witness ==
    /\ last.kind = "HtmlContext"
    /\ Len(manifest.entries) = 2
    /\ manifest.entries[1].isEntry = "false"
    /\ manifest.entries[2].isEntry = "true"
    /\ last.scripts = ScriptTag(manifest.entries[2].file)

\* the number of css files of the records before the i-th
RECURSIVE CssBefore(_, _)
CssBefore(m, i) ==
    IF i <= 1 THEN 0 ELSE CssBefore(m, i - 1) + Len(m.entries[i - 1].css)

\* C8: _get_styles returns one stylesheet line per element of each record's
\* css list, with href = /static/build/<css file>, the records in iteration
\* order and each list in its own order, joined by newlines; a record
\* without css adds nothing, and the empty manifest gives the empty string.
C8_OneStylePerCssFile ==
    (last.kind = "HtmlContext" /\ WellTyped(manifest)) =>
        LET n == CssBefore(manifest, Len(manifest.entries) + 1)
        IN  /\ LinesOf(last.styles, n)
            /\ \A i \in 1..Len(manifest.entries) :
                  \A j \in 1..Len(manifest.entries[i].css) :
                      LET k == CssBefore(manifest, i) + j
                      IN  /\ LineAt(last.styles, k) =
                                <<"<link rel=\"stylesheet\" href=\"/static/build/",
                                  manifest.entries[i].css[j], "\">">>
                          /\ SeparatedAt(last.styles, k, n)
            /\ manifest.entries = <<>> => last.styles = <<>>

C8_Witness ==
    /\ last.kind = "HtmlContext"
    /\ Len(manifest.entries) = 2
    /\ ~manifest.entries[1].hasCss
    /\ Len(manifest.entries[2].css) = 2
    /\ last.styles = StyleTag(CssNames[1]) \o <<NL>> \o StyleTag(CssNames[2])

\* C9 (as claimed): every response the middleware returns carries
\* X-Nadi-Version: 0.2.0; when the request carries X-Nadi, with any value,
\* the response carries the token of get_token as X-CSRF-Token; when the
\* request carries no X-Nadi the CSRF header is as get_response left it.
C9_CsrfForAnyMarker ==
    mw.called =>
        /\ mw.out.version = "0.2.0"
        /\ mw.xnadi # "absent" => mw.out.csrf = mw.token
        /\ mw.xnadi = "absent" => mw.out.csrf = mw.inner.csrf

\* C9 (amended): every response the middleware returns carries
\* X-Nadi-Version: 0.2.0; when the request carries X-Nadi with a value that
\* is not empty, the response carries the token of get_token as
\* X-CSRF-Token; when X-Nadi is absent or empty the CSRF header is as
\* get_response left it.
C9_CsrfForNonEmptyMarker ==
    mw.called =>
        /\ mw.out.version = "0.2.0"
        /\ mw.xnadi \notin {"absent", ""} => mw.out.csrf = mw.token
        /\ mw.xnadi \in {"absent", ""} => mw.out.csrf = mw.inner.csrf

C9_Witness ==
    /\ mw.called
    /\ mw.xnadi = ""
    /\ mw.inner = [version |-> "0.1.0", csrf |-> "absent"]
    /\ mw.out = [version |-> "0.2.0", csrf |-> "absent"]

\* C10: the manifest is loaded at construction and never written again:
\* whatever render calls are made, with whatever SSR outcome, and however the
\* manifest file changes, manifest, ssr_url and ssr_enabled stay as
\* construction set them, and the scripts and styles of every full-page
\* render are those of the manifest loaded at construction.
C10_ManifestFrozen ==
    /\ [][constructed =>
             manifest' = manifest /\ ssr_url' = ssr_url /\ ssr_enabled' = ssr_enabled]_vars
    /\ [](constructed => manifest = loaded.manifest)
    /\ [](last.kind = "HtmlContext" =>
             /\ last.scripts = GetScripts(loaded.manifest).value
             /\ last.styles = GetStyles(loaded.manifest).value)

C10_Witness ==
    /\ constructed
    /\ last.kind = "HtmlContext"
    /\ last.file # loaded.file
    /\ manifest = loaded.manifest
    /\ last.scripts # GetScripts(LoadManifest(last.file)).value
    /\ last.styles # GetStyles(LoadManifest(last.file)).value

====
